---- MODULE Spec2Model ----
(***************************************************************************)
(* Model of streamlit_app.py: the fetch pipeline (get_channel_info,        *)
(* get_popular_videos, the part of main that consumes its result) and the  *)
(* three formatters (format_count, format_duration,                        *)
(* format_published_date).                                                 *)
(*                                                                         *)
(* JSON values are modelled structurally: a mapping is a record, a key the *)
(* upstream omitted has the value Absent, a JSON null is Null, a string    *)
(* that int() cannot parse is NaN and a numeric string is Num(n) for the   *)
(* number n it denotes.  A Python exception is the value Raise.            *)
(***************************************************************************)
EXTENDS Integers, Sequences, FiniteSets, TLC

\* ------------------------------------------------------------------------
\* Bounds of the model
\* ------------------------------------------------------------------------
MaxItems == 3

\* ------------------------------------------------------------------------
\* JSON / Python values (every value is a record, so that any two compare)
\* ------------------------------------------------------------------------
Absent == [absent |-> TRUE]
Null == [null |-> TRUE]
NaN == [nonNumeric |-> TRUE]
NotMapping == [notMapping |-> TRUE]
Raise == [raise |-> TRUE]
NotCached == [notCached |-> TRUE]
NoResponse == [noResponse |-> TRUE]
Num(n) == [num |-> n]
Str(s) == [str |-> s]
List(q) == [list |-> q]
IsNum(v) == DOMAIN v = {"num"}

\* The elements of a list / the characters of a string (`x in q`)
Range(q) == { q[i] : i \in 1..Len(q) }

\* dict.get(key, default) on a key whose value is v (Absent when omitted)
Get(v, default) == IF v = Absent THEN default ELSE v

\* The empty dict {} standing for a channel's statistics or snippet
EmptyDict == [empty |-> TRUE]

\* What get_channel_info returns when it has nothing
EmptyChannelInfo == [statistics |-> EmptyDict, snippet |-> EmptyDict]

\* ------------------------------------------------------------------------
\* Inputs: the parameters main passes and what the upstream can answer
\* ------------------------------------------------------------------------
Regions == {"KR", "US"}
MaxResultsChoices == {10, 50}
Channels == {"UC_a", "UC_b"}

ThumbOf(c) == Str(<<"https://yt3/", c>>)
SubsOf(c) == IF c = "UC_a" THEN Num(1200) ELSE Num(35)

\* The first element of items[] of a channels response
ChannelItems(c) ==
  { [statistics |-> [subscriberCount |-> SubsOf(c)],
     snippet |-> [thumbnails |-> [default |-> [url |-> ThumbOf(c)]]]],
    [statistics |-> Absent, snippet |-> [thumbnails |-> Absent]],
    [statistics |-> [subscriberCount |-> Absent], snippet |-> Absent],
    [statistics |-> [subscriberCount |-> NaN],
     snippet |-> [thumbnails |-> [default |-> [url |-> ThumbOf(c)]]]],
    [statistics |-> [subscriberCount |-> SubsOf(c)], snippet |-> Null],
    NotMapping }

\* Everything the channels endpoint can answer for channel c
ChannelResponses(c) ==
  { [outcome |-> "transport_error", data |-> Absent],
    [outcome |-> "http_error", data |-> Absent],
    [outcome |-> "bad_json", data |-> Absent],
    [outcome |-> "json", data |-> [items |-> List(<<>>)]] }
  \cup { [outcome |-> "json", data |-> [items |-> List(<<it>>)]] : it \in ChannelItems(c) }

\* The items[] elements of a videos response; i is the position, which also
\* serves as the (unique) video id
VideoItems(i) ==
  LET snip(c) == [channelId |-> c, title |-> <<"title", i>>,
                  channelTitle |-> <<"name", c>>,
                  thumbnails |-> <<"https://i.ytimg/", i>>,
                  publishedAt |-> <<"2024-01-01T00:00:00Z", i>>]
      fullStats == [viewCount |-> Num(10 * i), likeCount |-> Num(i),
                    commentCount |-> Num(i + 1)]
      noStats == [viewCount |-> Absent, likeCount |-> Absent, commentCount |-> Absent]
      dur == [duration |-> Str("PT5M30S")]
  IN  UNION { { [id |-> i, snippet |-> snip(c), statistics |-> fullStats,
                 contentDetails |-> dur],
                [id |-> i, snippet |-> snip(c), statistics |-> noStats,
                 contentDetails |-> [duration |-> Absent]],
                [id |-> i, snippet |-> snip(c), statistics |-> Absent,
                 contentDetails |-> dur] } : c \in Channels }
      \cup { [id |-> i, snippet |-> Absent, statistics |-> fullStats,
              contentDetails |-> dur] }

\* All items[] arrays of exactly n elements / of at most MaxItems elements
RECURSIVE ItemListsOfLen(_)
ItemListsOfLen(n) ==
  IF n = 0 THEN { <<>> }
  ELSE { Append(q, it) : q \in ItemListsOfLen(n - 1), it \in VideoItems(n) }

ItemLists == UNION { ItemListsOfLen(n) : n \in 0..MaxItems }

\* Everything the videos endpoint can answer
ListResponses ==
  { [outcome |-> "transport_error", data |-> Absent],
    [outcome |-> "http_error", data |-> Absent],
    [outcome |-> "bad_json", data |-> Absent],
    [outcome |-> "json", data |-> NotMapping],
    [outcome |-> "json", data |-> [items |-> Absent]] }
  \cup { [outcome |-> "json", data |-> [items |-> List(its)]] : its \in ItemLists }

\* ------------------------------------------------------------------------
\* State
\* ------------------------------------------------------------------------
VARIABLES
  pc,             \* "start", "loop", "returned", "done"
  region_code,    \* parameters of get_popular_videos
  max_results,
  listResp,       \* what the videos endpoint answered (NoResponse before)
  chanResp,       \* per channel: what the channels endpoint answered
  requests,       \* the HTTP requests issued so far, in order
  idx,            \* position of the for loop in data['items']
  videos,         \* the local list `videos` / the value returned
  channel_cache,  \* the local dict `channel_cache`
  errors,         \* st.error / st.warning messages shown, in order
  displayed,      \* the list main renders (after its sort)
  fmt_fn,         \* the formatter being called ("none" in the pipeline)
  fmt_in,         \* its argument
  fmt_out,        \* its result: Str(sequence of characters) or Raise
  fmt_pc          \* "idle", "call", "done"

pipeVars == <<pc, region_code, max_results, listResp, chanResp, requests, idx,
              videos, channel_cache, errors, displayed>>
fmtVars == <<fmt_fn, fmt_in, fmt_out, fmt_pc>>
vars == <<pipeVars, fmtVars>>

\* ------------------------------------------------------------------------
\* get_channel_info (lines 36-59)
\* ------------------------------------------------------------------------
\* TRUE when the try block raises and the except branch runs:
\* requests.get raises, raise_for_status raises, response.json() raises, or
\* items[0] is not a mapping, so that item.get raises AttributeError
ChannelInfoRaises(resp) ==
  \/ resp.outcome # "json"
  \/ /\ resp.data.items # Absent
     /\ resp.data.items.list # <<>>
     /\ resp.data.items.list[1] = NotMapping

\* The dict get_channel_info returns
get_channel_info(resp) ==
  IF ChannelInfoRaises(resp) THEN EmptyChannelInfo
  ELSE IF resp.data.items # Absent /\ resp.data.items.list # <<>>
       THEN LET item == resp.data.items.list[1]
            IN  [statistics |-> Get(item.statistics, EmptyDict),
                 snippet |-> Get(item.snippet, EmptyDict)]
       ELSE EmptyChannelInfo

\* ------------------------------------------------------------------------
\* get_popular_videos (lines 61-113)
\* ------------------------------------------------------------------------
\* data.get('items', []) of the parsed list response
ItemsOf(resp) == Get(resp.data.items, List(<<>>)).list

\* Lines 75-77 raise: transport error, HTTP error status, unparsable body;
\* line 82 raises when the parsed body is not a mapping
ListRaises(resp) == resp.outcome # "json" \/ resp.data = NotMapping

\* int(d.get(key, 0)) of a statistics dict entry v, as Num(n); Raise
\* (ValueError) on a non-numeric string
IntOrZero(v) == LET w == Get(v, Num(0)) IN IF IsNum(w) THEN w ELSE Raise

\* Line 103
Subscribers(channel_stats) ==
  IF channel_stats # EmptyDict /\ channel_stats # Null
  THEN IntOrZero(channel_stats.subscriberCount)
  ELSE Num(0)

\* Line 106: channel_snippet.get('thumbnails', {}).get('default', {}).get('url', '')
ChannelThumbnail(channel_snippet) ==
  IF channel_snippet = Null THEN Raise
  ELSE IF channel_snippet = EmptyDict THEN Str("")
  ELSE IF channel_snippet.thumbnails = Absent THEN Str("")
  ELSE channel_snippet.thumbnails.default.url

\* Lines 90-107: the dict built for one item from its cached channel data;
\* Raise when any of the subscripts or conversions raises
BuildVideo(item, channel_data) ==
  LET channel_stats == Get(channel_data.statistics, EmptyDict)
      channel_snippet == Get(channel_data.snippet, EmptyDict)
  IN  IF \/ item.statistics = Absent
         \/ item.contentDetails = Absent
         \/ IntOrZero(item.statistics.viewCount) = Raise
         \/ IntOrZero(item.statistics.likeCount) = Raise
         \/ IntOrZero(item.statistics.commentCount) = Raise
         \/ Subscribers(channel_stats) = Raise
         \/ ChannelThumbnail(channel_snippet) = Raise
      THEN Raise
      ELSE [id |-> item.id,
            title |-> item.snippet.title,
            channel |-> item.snippet.channelTitle,
            channel_id |-> item.snippet.channelId,
            thumbnail |-> item.snippet.thumbnails,
            views |-> IntOrZero(item.statistics.viewCount).num,
            likes |-> IntOrZero(item.statistics.likeCount).num,
            comments |-> IntOrZero(item.statistics.commentCount).num,
            subscribers |-> Subscribers(channel_stats).num,
            published_at |-> item.snippet.publishedAt,
            duration |-> Get(item.contentDetails.duration, Str("PT0S")),
            channel_thumbnail |-> ChannelThumbnail(channel_snippet)]

\* Faulty variant of CacheMiss: the cache is never consulted
CacheMiss_Always(cache, channel_id) == TRUE

\* Line 87: `channel_id not in channel_cache`
CacheMiss(cache, channel_id) == cache[channel_id] = NotCached

\* Faulty variant of ExceptReturn: the except branch hands back what was accumulated
ExceptReturn_Partial(acc) == acc

\* Lines 111-113: what the except branch returns, given the records
\* accumulated so far
ExceptReturn(acc) == <<>>

ListErrorMsg == "YouTube API error"
ChannelErrorMsg == "channel info error"
LoadFailedMsg == "failed to load videos"

Init ==
  /\ pc = "start"
  /\ region_code \in Regions
  /\ max_results \in MaxResultsChoices
  /\ listResp = NoResponse
  /\ chanResp = [c \in Channels |-> NoResponse]
  /\ requests = <<>>
  /\ idx = 0
  /\ videos = <<>>
  /\ channel_cache = [c \in Channels |-> NotCached]
  /\ errors = <<>>
  /\ displayed = <<>>
  /\ fmt_fn = "none"
  /\ fmt_in = Absent
  /\ fmt_out = Absent
  /\ fmt_pc = "idle"

\* Lines 75-80: the list request and, when it raises, lines 111-113
ListRequest ==
  /\ pc = "start"
  /\ \E r \in ListResponses :
       /\ listResp' = r
       /\ requests' = Append(requests, [endpoint |-> "videos", regionCode |-> region_code,
                                        maxResults |-> max_results, id |-> "-"])
       /\ IF ListRaises(r)
          THEN /\ videos' = ExceptReturn(<<>>)
               /\ errors' = Append(errors, ListErrorMsg)
               /\ pc' = "returned"
               /\ idx' = idx
          ELSE /\ videos' = <<>>
               /\ errors' = errors
               /\ pc' = "loop"
               /\ idx' = 1
  /\ channel_cache' = [c \in Channels |-> NotCached]
  /\ UNCHANGED <<region_code, max_results, chanResp, displayed, fmtVars>>

\* Lines 82-108: one iteration of the for loop, with the call of
\* get_channel_info it may make, and lines 111-113 when it raises
LoopItem ==
  /\ pc = "loop"
  /\ idx <= Len(ItemsOf(listResp))
  /\ LET item == ItemsOf(listResp)[idx]
     IN  IF item.snippet = Absent
         THEN \* line 84 raises KeyError before any channel request
              /\ videos' = ExceptReturn(videos)
              /\ errors' = Append(errors, ListErrorMsg)
              /\ pc' = "returned"
              /\ UNCHANGED <<idx, chanResp, requests, channel_cache>>
         ELSE LET channel_id == item.snippet.channelId
                  miss == CacheMiss(channel_cache, channel_id)
              IN  \E r \in (IF miss THEN ChannelResponses(channel_id) ELSE {NoResponse}) :
                    LET
                        cache2 == IF miss
                                  THEN [channel_cache EXCEPT ![channel_id] = get_channel_info(r)]
                                  ELSE channel_cache
                        errors2 == IF miss /\ ChannelInfoRaises(r)
                                   THEN Append(errors, ChannelErrorMsg)
                                   ELSE errors
                        video == BuildVideo(item, cache2[channel_id])
                    IN  /\ channel_cache' = cache2
                        /\ chanResp' = IF miss THEN [chanResp EXCEPT ![channel_id] = r]
                                       ELSE chanResp
                        /\ requests' = IF miss
                                       THEN Append(requests, [endpoint |-> "channels",
                                                              regionCode |-> "-",
                                                              maxResults |-> 0,
                                                              id |-> channel_id])
                                       ELSE requests
                        /\ IF video = Raise
                           THEN /\ videos' = ExceptReturn(videos)
                                /\ errors' = Append(errors2, ListErrorMsg)
                                /\ pc' = "returned"
                                /\ idx' = idx
                           ELSE /\ videos' = Append(videos, video)
                                /\ errors' = errors2
                                /\ pc' = "loop"
                                /\ idx' = idx + 1
  /\ UNCHANGED <<region_code, max_results, listResp, displayed, fmtVars>>

\* Line 110: the loop is over, `return videos`
ReturnVideos ==
  /\ pc = "loop"
  /\ idx > Len(ItemsOf(listResp))
  /\ pc' = "returned"
  /\ UNCHANGED <<region_code, max_results, listResp, chanResp, requests, idx,
                 videos, channel_cache, errors, displayed, fmtVars>>

\* Position at which record v goes into the descending-by-views list q so
\* that equal keys keep their order (list.sort is stable)
RECURSIVE InsertByViews(_, _)
InsertByViews(q, v) ==
  IF q = <<>> THEN <<v>>
  ELSE IF Head(q).views >= v.views THEN <<Head(q)>> \o InsertByViews(Tail(q), v)
  ELSE <<v>> \o q

\* Line 253: videos.sort(key=views, reverse=True)
RECURSIVE SortByViews(_)
SortByViews(q) ==
  IF q = <<>> THEN <<>>
  ELSE InsertByViews(SortByViews(SubSeq(q, 1, Len(q) - 1)), q[Len(q)])

\* Lines 246-253 of main: consume the returned list
Main ==
  /\ pc = "returned"
  /\ pc' = "done"
  /\ IF videos = <<>>
     THEN /\ errors' = Append(errors, LoadFailedMsg)
          /\ displayed' = <<>>
     ELSE /\ errors' = errors
          /\ displayed' = SortByViews(videos)
  /\ UNCHANGED <<region_code, max_results, listResp, chanResp, requests, idx,
                 videos, channel_cache, fmtVars>>

Next == ListRequest \/ LoopItem \/ ReturnVideos \/ Main

Spec == Init /\ [][Next]_vars

\* ------------------------------------------------------------------------
\* Vocabulary of the properties
\* ------------------------------------------------------------------------
Returned == pc \in {"returned", "done"}
Answered == listResp # NoResponse

\* The list response was received and parsed into a mapping
ListParsed == Answered /\ ~ListRaises(listResp)

\* The items of the parsed list response (none when there is no such response)
Items == IF ListParsed THEN ItemsOf(listResp) ELSE <<>>

\* An item lacking the snippet the pipeline subscripts: a malformed body
MalformedItem(it) == it.snippet = Absent

\* The list call failed: transport error, error status, unparsable or
\* malformed body
ListFailed == Answered /\ (ListRaises(listResp) \/ \E it \in Range(Items) : MalformedItem(it))
ListSucceeded == Answered /\ ~ListFailed

\* An item with its statistics and contentDetails objects present
CompleteItem(it) ==
  ~MalformedItem(it) /\ it.statistics # Absent /\ it.contentDetails # Absent

\* The channel-info requests issued so far, as the sequence of their ids
ChannelCalls == [i \in 1..(Len(requests) - 1) |-> requests[i + 1].id]
CallsFor(c) == Cardinality({ i \in 1..Len(requests) :
                              requests[i].endpoint = "channels" /\ requests[i].id = c })
NumChannelCalls == Cardinality({ i \in 1..Len(requests) : requests[i].endpoint = "channels" })
ChannelIdsOf(its) == { it.snippet.channelId : it \in { x \in Range(its) : ~MalformedItem(x) } }

\* The channelIds of its in order of first appearance
RECURSIVE FirstAppearance(_)
FirstAppearance(its) ==
  IF its = <<>> THEN <<>>
  ELSE LET front == FirstAppearance(SubSeq(its, 1, Len(its) - 1))
           last == its[Len(its)]
       IN  IF MalformedItem(last) \/ last.snippet.channelId \in Range(front)
           THEN front
           ELSE Append(front, last.snippet.channelId)

IsPrefix(p, q) == Len(p) <= Len(q) /\ \A i \in 1..Len(p) : p[i] = q[i]

\* The channel-info call for c was made and failed: transport error, error
\* status, unparsable body, or a body of unexpected shape
ChannelMalformed(r) ==
  /\ r.outcome = "json"
  /\ r.data.items.list # <<>>
  /\ LET it == r.data.items.list[1]
     IN  \/ it = NotMapping
         \/ /\ it # NotMapping
            /\ \/ it.snippet = Null
               \/ (it.statistics # Absent /\ it.statistics.subscriberCount = NaN)
ChannelFailed(c) ==
  /\ chanResp[c] # NoResponse
  /\ (chanResp[c].outcome # "json" \/ ChannelMalformed(chanResp[c]))

\* ------------------------------------------------------------------------
\* C1
\* ------------------------------------------------------------------------
\* C1: when the list request fails (transport error, error status,
\* unparsable or malformed body) get_popular_videos reports the failure and
\* returns no record at all, whatever the region and the page size.
C1_ListFailureReturnsNothing ==
  (Returned /\ ListFailed) => (videos = <<>> /\ ListErrorMsg \in Range(errors))

\* A malformed second item aborts the fetch after a record for the first
\* item had been built: nothing of it is returned
C1_Witness ==
  /\ pc = "returned"
  /\ ListParsed
  /\ Len(Items) >= 2
  /\ CompleteItem(Items[1])
  /\ MalformedItem(Items[2])
  /\ NumChannelCalls = 1
  /\ ~ChannelFailed(Items[1].snippet.channelId)
  /\ videos = <<>>

DefaultsForFailedChannel(v) == v.subscribers = 0 /\ v.channel_thumbnail = Str("")

\* C2: when the list call succeeded with N complete items and a
\* channel-info call failed (transport error, error status, malformed or
\* unexpected body), the fetch still succeeds with N records, the records of
\* a failed channel carry subscribers = 0 and an empty channel thumbnail, and
\* the records of the other channels are what their own channel data gives.
C2_ChannelFailureAbsorbed ==
  ( /\ Returned
    /\ ListSucceeded
    /\ \A it \in Range(Items) : CompleteItem(it)
    /\ \E c \in Channels : ChannelFailed(c) )
  => /\ ListErrorMsg \notin Range(errors)
     /\ Len(videos) = Len(Items)
     /\ \A i \in 1..Len(Items) :
          LET c == Items[i].snippet.channelId
          IN  IF ChannelFailed(c)
              THEN DefaultsForFailedChannel(videos[i])
              ELSE videos[i] = BuildVideo(Items[i], get_channel_info(chanResp[c]))

\* ------------------------------------------------------------------------
\* C3
\* ------------------------------------------------------------------------
\* The part of C3 that the cache alone decides: no channelId is requested
\* twice, and there are no more requests than distinct channelIds
C3_AtMostOncePerChannel ==
  /\ \A c \in Channels : CallsFor(c) <= 1
  /\ NumChannelCalls <= Cardinality(ChannelIdsOf(Items))

\* C3: within one fetch at most one channel-info request is issued per
\* channelId, failed or not; the number of channel-info requests never
\* exceeds the number of distinct channelIds; and a list response of three
\* well-formed items, two of them sharing a channelId, leads to exactly two
\* channel-info requests.
C3_OneCallPerChannel ==
  /\ C3_AtMostOncePerChannel
  /\ ( /\ Returned
       /\ ListSucceeded
       /\ Len(Items) = 3
       /\ \A it \in Range(Items) : CompleteItem(it)
       /\ Cardinality(ChannelIdsOf(Items)) = 2 )
     => NumChannelCalls = 2

\* ------------------------------------------------------------------------
\* C4
\* ------------------------------------------------------------------------
\* C4: what the caller receives when the list call fails differs from what
\* it receives when the list call succeeds with zero items, and the caller
\* does not treat the successful empty result as a failure.
C4_EmptySuccessIsNotFailure ==
  (Returned /\ ListSucceeded /\ Items = <<>>)
  => /\ videos # ExceptReturn(<<>>)
     /\ LoadFailedMsg \notin Range(errors)

\* ------------------------------------------------------------------------
\* C5
\* ------------------------------------------------------------------------
\* C5: when the list call succeeds the returned sequence has exactly one
\* record per item, in the order of the response, record i carrying the id
\* of item i and the data of item i's own channel.
C5_OneRecordPerItemInOrder ==
  (Returned /\ ListSucceeded)
  => /\ Len(videos) = Len(Items)
     /\ \A i \in 1..Len(Items) :
          /\ videos[i].id = Items[i].id
          /\ videos[i].channel_id = Items[i].snippet.channelId
          /\ videos[i].subscribers =
               Subscribers(get_channel_info(chanResp[Items[i].snippet.channelId]).statistics).num

\* The part of C5 that survives an aborted fetch: what is returned is the
\* records of all items in order, or nothing
C5_AllInOrderOrNone ==
  (Returned /\ ListSucceeded)
  => \/ videos = <<>>
     \/ /\ Len(videos) = Len(Items)
        /\ \A i \in 1..Len(Items) :
             /\ videos[i].id = Items[i].id
             /\ videos[i].channel_id = Items[i].snippet.channelId

\* ------------------------------------------------------------------------
\* C6
\* ------------------------------------------------------------------------
\* C6: every item of a successful list response gets a record in which an
\* omitted viewCount, likeCount, commentCount or subscriberCount is 0 and an
\* omitted duration is "PT0S"; omitting them, or the statistics object that
\* encloses them, neither drops the record nor fails the fetch.
C6_OmittedFieldsDefault ==
  ( /\ Returned
    /\ ListSucceeded
    /\ \A c \in Channels : ~ChannelFailed(c) )
  => /\ ListErrorMsg \notin Range(errors)
     /\ Len(videos) = Len(Items)
     /\ \A i \in 1..Len(Items) :
          LET it == Items[i]
              omitted(f) == it.statistics = Absent \/ it.statistics[f] = Absent
          IN  /\ omitted("viewCount") => videos[i].views = 0
              /\ omitted("likeCount") => videos[i].likes = 0
              /\ omitted("commentCount") => videos[i].comments = 0
              /\ (it.contentDetails = Absent \/ it.contentDetails.duration = Absent)
                   => videos[i].duration = Str("PT0S")

\* The part of C6 about fields omitted inside objects that are present
C6_OmittedInnerFieldsDefault ==
  Returned =>
    \A i \in 1..Len(videos) :
      LET it == Items[i]
      IN  /\ it.statistics.viewCount = Absent => videos[i].views = 0
          /\ it.statistics.likeCount = Absent => videos[i].likes = 0
          /\ it.statistics.commentCount = Absent => videos[i].comments = 0
          /\ it.contentDetails.duration = Absent => videos[i].duration = Str("PT0S")

\* ------------------------------------------------------------------------
\* Strings: a string is the sequence of its characters
\* ------------------------------------------------------------------------
DigitChars == <<"0", "1", "2", "3", "4", "5", "6", "7", "8", "9">>
IsDigit(ch) == \E k \in 1..10 : DigitChars[k] = ch
DigitVal(ch) == (CHOOSE k \in 1..10 : DigitChars[k] = ch) - 1

\* str(n) / f"{n}" of a non-negative int
RECURSIVE Digits(_)
Digits(n) == IF n < 10 THEN <<DigitChars[n + 1]>>
             ELSE Append(Digits(n \div 10), DigitChars[(n % 10) + 1])

\* f"{n}" of any int
IntStr(n) == IF n < 0 THEN <<"-">> \o Digits(-n) ELSE Digits(n)

\* int(s) of a string of digits
RECURSIVE ToInt(_)
ToInt(q) == IF q = <<>> THEN 0
            ELSE 10 * ToInt(SubSeq(q, 1, Len(q) - 1)) + DigitVal(q[Len(q)])

\* f"{n:02d}" of a non-negative int
Pad2(n) == IF n < 10 THEN <<"0">> \o Digits(n) ELSE Digits(n)

\* f"{n:,}" applied to the digits of a non-negative int
RECURSIVE Grouped(_)
Grouped(q) == IF Len(q) <= 3 THEN q
              ELSE Grouped(SubSeq(q, 1, Len(q) - 3)) \o <<",">> \o SubSeq(q, Len(q) - 2, Len(q))

\* The Korean literals of the formatters, one element per Hangul syllable or
\* space, each syllable written as its code point
Eok == "U+C5B5"
Man == "U+B9CC"
Jeon == <<" ", "U+C804">>
NyeonJeon == <<"U+B144">> \o Jeon
GaewolJeon == <<"U+AC1C", "U+C6D4">> \o Jeon
IlJeon == <<"U+C77C">> \o Jeon
SiganJeon == <<"U+C2DC", "U+AC04">> \o Jeon
BunJeon == <<"U+BD84">> \o Jeon
BanggeumJeon == <<"U+BC29", "U+AE08">> \o Jeon

\* ------------------------------------------------------------------------
\* format_count (lines 115-121)
\* ------------------------------------------------------------------------
RECURSIVE BitLength(_)
BitLength(n) == IF n = 0 THEN 0 ELSE 1 + BitLength(n \div 2)

\* The remainder of r/20 after k more binary digits of it are produced
RECURSIVE DoubleRem(_, _)
DoubleRem(r, k) == IF k = 0 THEN r ELSE DoubleRem((2 * r) % 20, k - 1)

\* f"{count / unit10:.1f}" for count/(10*unit) exactly half way between two
\* tenths, i.e. count/(10*unit) = q/20 with q odd: the float quotient is the
\* double nearest to q/20 (53 significant bits), and the format rounds the
\* double's exact value, half to even.  Returns the number of tenths.
TenthsOfTie(q) ==
  LET t0 == (q - 1) \div 2
      kept == 53 - BitLength(q \div 20)
      tail == DoubleRem(q % 20, kept)
  IN  IF tail = 0 THEN (IF t0 % 2 = 0 THEN t0 ELSE t0 + 1)
      ELSE IF tail > 10 THEN t0 + 1
      ELSE t0

\* The number of tenths f"{count / (10 * unit):.1f}" shows
Tenths(count, unit) ==
  LET t0 == count \div unit
      rem == count % unit
  IN  IF 2 * rem < unit THEN t0
      ELSE IF 2 * rem > unit THEN t0 + 1
      ELSE TenthsOfTie(2 * t0 + 1)

OneDecimal(t) == Digits(t \div 10) \o <<".">> \o Digits(t % 10)

\* Faulty variant of format_count: the thresholds exclude their own value
format_count_Strict(count) ==
  Str(IF count > 100000000 THEN OneDecimal(Tenths(count, 10000000)) \o <<Eok>>
      ELSE IF count > 10000 THEN OneDecimal(Tenths(count, 1000)) \o <<Man>>
      ELSE Grouped(Digits(count)))

format_count(count) ==
  Str(IF count >= 100000000 THEN OneDecimal(Tenths(count, 10000000)) \o <<Eok>>
      ELSE IF count >= 10000 THEN OneDecimal(Tenths(count, 1000)) \o <<Man>>
      ELSE Grouped(Digits(count)))

\* ------------------------------------------------------------------------
\* format_duration (lines 123-134)
\* ------------------------------------------------------------------------
\* The last index of the run of digits that starts at i
RECURSIVE RunEnd(_, _)
RunEnd(d, i) == IF i < Len(d) /\ IsDigit(d[i + 1]) THEN RunEnd(d, i + 1) ELSE i

\* re.search(r'(\d+)L', d) matches at position i
MatchesAt(d, i, letter) ==
  /\ IsDigit(d[i])
  /\ RunEnd(d, i) < Len(d)
  /\ d[RunEnd(d, i) + 1] = letter

\* int(re.search(r'(\d+)L', d)[1]) if 'L' in d else 0, as Num(n); Raise
\* (TypeError: subscript of None) when L occurs but the pattern does not match
Component(d, letter) ==
  IF letter \notin Range(d) THEN Num(0)
  ELSE LET starts == { i \in 1..Len(d) : MatchesAt(d, i, letter) }
       IN  IF starts = {} THEN Raise
           ELSE LET i == CHOOSE x \in starts : \A y \in starts : x <= y
                IN  Num(ToInt(SubSeq(d, i, RunEnd(d, i))))

format_duration(duration) ==
  LET hours == Component(duration, "H")
      minutes == Component(duration, "M")
      seconds == Component(duration, "S")
  IN  IF hours = Raise \/ minutes = Raise \/ seconds = Raise THEN Raise
      ELSE IF hours.num > 0
           THEN Str(Digits(hours.num) \o <<":">> \o Pad2(minutes.num)
                    \o <<":">> \o Pad2(seconds.num))
           ELSE Str(Digits(minutes.num) \o <<":">> \o Pad2(seconds.num))

\* ------------------------------------------------------------------------
\* format_published_date (lines 136-157)
\* ------------------------------------------------------------------------
\* Lines 138-140: delta = now - published as the normalised timedelta, with
\* both instants in whole seconds since a common origin (delta.seconds
\* ignores the microseconds of utcnow)
TimeDelta(published, now) ==
  [days |-> (now - published) \div 86400, seconds |-> (now - published) % 86400]

\* Faulty variant of format_published_date: the thresholds include their own value
format_published_date_Inclusive(published, now) ==
  LET delta == TimeDelta(published, now)
  IN  Str(IF delta.days >= 365 THEN IntStr(delta.days \div 365) \o NyeonJeon
          ELSE IF delta.days >= 30 THEN IntStr(delta.days \div 30) \o GaewolJeon
          ELSE IF delta.days > 0 THEN IntStr(delta.days) \o IlJeon
          ELSE IF delta.seconds >= 3600 THEN IntStr(delta.seconds \div 3600) \o SiganJeon
          ELSE IF delta.seconds >= 60 THEN IntStr(delta.seconds \div 60) \o BunJeon
          ELSE BanggeumJeon)

format_published_date(published, now) ==
  LET delta == TimeDelta(published, now)
  IN  Str(IF delta.days > 365 THEN IntStr(delta.days \div 365) \o NyeonJeon
          ELSE IF delta.days > 30 THEN IntStr(delta.days \div 30) \o GaewolJeon
          ELSE IF delta.days > 0 THEN IntStr(delta.days) \o IlJeon
          ELSE IF delta.seconds > 3600 THEN IntStr(delta.seconds \div 3600) \o SiganJeon
          ELSE IF delta.seconds > 60 THEN IntStr(delta.seconds \div 60) \o BunJeon
          ELSE BanggeumJeon)

\* ------------------------------------------------------------------------
\* The formatters applied to bounded inputs
\* ------------------------------------------------------------------------
MaxCountMant == 20
MaxDurationLen == 4
MaxDays == 12

CountScales == {1, 500, 1000, 5000000, 50000000}
CountInputs ==
  { n \in { m * sc + d : m \in 0..MaxCountMant, sc \in CountScales, d \in {-1, 0, 1} } : n >= 0 }

DurationAlphabet == {"T", "H", "M", "S", "0", "1"}
RECURSIVE StringsOfLen(_)
StringsOfLen(n) ==
  IF n = 0 THEN { <<>> }
  ELSE { Append(q, ch) : q \in StringsOfLen(n - 1), ch \in DurationAlphabet }
DurationExamples ==
  { <<"P", "T", "0", "S">>, <<"P", "T", "5", "M", "3", "0", "S">>,
    <<"P", "T", "1", "H", "2", "M", "3", "S">>, <<"P", "T", "4", "5", "S">>,
    <<"P", "0", "D">>, <<"P", "T", "1", "2", "H", "5", "S">> }
DurationInputs == DurationExamples \cup UNION { StringsOfLen(n) : n \in 0..MaxDurationLen }

\* Elapsed times: whole days around every threshold, seconds of the day
\* around every threshold; published = now + 10 s is a clock ahead of ours
DayChoices == {-1, 0, 1, 5, 29, 30, 31, 40, 364, 365, 366, 400, 729, 730, 731} \cup 0..MaxDays
SecondChoices == {0, 10, 59, 60, 61, 120, 3599, 3600, 3601, 7200, 86390, 86399}
DateInputs ==
  { [published |-> 0, now |-> d * 86400 + sec] : d \in DayChoices, sec \in SecondChoices }

FormatInit ==
  /\ pc = "idle"
  /\ region_code = "KR"
  /\ max_results = 30
  /\ listResp = NoResponse
  /\ chanResp = [c \in Channels |-> NoResponse]
  /\ requests = <<>>
  /\ idx = 0
  /\ videos = <<>>
  /\ channel_cache = [c \in Channels |-> NotCached]
  /\ errors = <<>>
  /\ displayed = <<>>
  /\ fmt_pc = "call"
  /\ fmt_out = Absent
  /\ \/ fmt_fn = "format_count" /\ fmt_in \in { Num(n) : n \in CountInputs }
     \/ fmt_fn = "format_duration" /\ fmt_in \in { Str(d) : d \in DurationInputs }
     \/ fmt_fn = "format_published_date" /\ fmt_in \in DateInputs

FormatCount ==
  /\ fmt_pc = "call" /\ fmt_fn = "format_count"
  /\ fmt_out' = format_count(fmt_in.num)
  /\ fmt_pc' = "done"
  /\ UNCHANGED <<pipeVars, fmt_fn, fmt_in>>

FormatDuration ==
  /\ fmt_pc = "call" /\ fmt_fn = "format_duration"
  /\ fmt_out' = format_duration(fmt_in.str)
  /\ fmt_pc' = "done"
  /\ UNCHANGED <<pipeVars, fmt_fn, fmt_in>>

FormatPublishedDate ==
  /\ fmt_pc = "call" /\ fmt_fn = "format_published_date"
  /\ fmt_out' = format_published_date(fmt_in.published, fmt_in.now)
  /\ fmt_pc' = "done"
  /\ UNCHANGED <<pipeVars, fmt_fn, fmt_in>>

FormatNext == FormatCount \/ FormatDuration \/ FormatPublishedDate

FormatSpec == FormatInit /\ [][FormatNext]_vars

\* ------------------------------------------------------------------------
\* C7
\* ------------------------------------------------------------------------
Called(fn) == fmt_pc = "done" /\ fmt_fn = fn

\* The label the rule of C7 gives for d whole days and sec remaining seconds
RelativeLabel(d, sec) ==
  IF d > 365 THEN IntStr(d \div 365) \o NyeonJeon
  ELSE IF d > 30 THEN IntStr(d \div 30) \o GaewolJeon
  ELSE IF d > 0 THEN IntStr(d) \o IlJeon
  ELSE IF sec > 3600 THEN IntStr(sec \div 3600) \o SiganJeon
  ELSE IF sec > 60 THEN IntStr(sec \div 60) \o BunJeon
  ELSE BanggeumJeon

\* C7: with elapsed = now - timestamp split into whole days d and remaining
\* seconds s, format_published_date returns the one label of the first
\* matching rule (d > 365 years, d > 30 months, d > 0 days, s > 3600 hours,
\* s > 60 minutes, else "just now"), the thresholds being strict: 400 days
\* is 1 year, 40 days 1 month, 5 days 5 days, 2 hours 2 hours, 10 seconds
\* just now, 365 days 12 months, 30 days 30 days, 3600 s 60 minutes and
\* 60 s just now.
C7_RelativeDateBuckets ==
  Called("format_published_date") =>
    LET elapsed == fmt_in.now - fmt_in.published
        d == elapsed \div 86400
        sec == elapsed - 86400 * d
        is(e, label) == elapsed = e => fmt_out = Str(label)
    IN  /\ 0 <= sec /\ sec < 86400
        /\ fmt_out = Str(RelativeLabel(d, sec))
        /\ is(400 * 86400, <<"1">> \o NyeonJeon)
        /\ is(40 * 86400, <<"1">> \o GaewolJeon)
        /\ is(5 * 86400, <<"5">> \o IlJeon)
        /\ is(7200, <<"2">> \o SiganJeon)
        /\ is(10, BanggeumJeon)
        /\ is(365 * 86400, <<"1", "2">> \o GaewolJeon)
        /\ is(30 * 86400, <<"3", "0">> \o IlJeon)
        /\ is(3600, <<"6", "0">> \o BunJeon)
        /\ is(60, BanggeumJeon)

\* Exactly 365 days have elapsed and the label is in months
C7_Witness ==
  /\ Called("format_published_date")
  /\ fmt_in.now - fmt_in.published = 365 * 86400
  /\ fmt_out = Str(<<"1", "2">> \o GaewolJeon)

\* ------------------------------------------------------------------------
\* C8
\* ------------------------------------------------------------------------
\* The integer of the first <n>L component of d, 0 when d has no such component
ComponentOrZero(d, letter) ==
  LET starts == { i \in 1..Len(d) : MatchesAt(d, i, letter) }
  IN  IF starts = {} THEN 0
      ELSE LET i == CHOOSE x \in starts : \A y \in starts : x <= y
           IN  ToInt(SubSeq(d, i, RunEnd(d, i)))

\* C8: format_duration returns a string for every input string; hours,
\* minutes and seconds are the integers of the <n>H, <n>M and <n>S components
\* the input contains, each 0 when the input has no such component; the
\* rendering is H:MM:SS when hours > 0 and M:SS otherwise.
C8_FormatDurationTotal ==
  Called("format_duration") =>
    LET d == fmt_in.str
        h == ComponentOrZero(d, "H")
        m == ComponentOrZero(d, "M")
        sec == ComponentOrZero(d, "S")
    IN  /\ fmt_out # Raise
        /\ fmt_out = Str(IF h > 0
                         THEN Digits(h) \o <<":">> \o Pad2(m) \o <<":">> \o Pad2(sec)
                         ELSE Digits(m) \o <<":">> \o Pad2(sec))

\* The part of C8 that holds: whenever a string is returned it is that
\* rendering, and the four examples render as stated
C8_RenderingWhenReturned ==
  Called("format_duration") =>
    LET d == fmt_in.str
        h == ComponentOrZero(d, "H")
        m == ComponentOrZero(d, "M")
        sec == ComponentOrZero(d, "S")
        is(input, output) == d = input => fmt_out = Str(output)
    IN  /\ fmt_out # Raise =>
             fmt_out = Str(IF h > 0
                           THEN Digits(h) \o <<":">> \o Pad2(m) \o <<":">> \o Pad2(sec)
                           ELSE Digits(m) \o <<":">> \o Pad2(sec))
        /\ is(<<"P", "T", "0", "S">>, <<"0", ":", "0", "0">>)
        /\ is(<<"P", "T", "5", "M", "3", "0", "S">>, <<"5", ":", "3", "0">>)
        /\ is(<<"P", "T", "1", "H", "2", "M", "3", "S">>,
              <<"1", ":", "0", "2", ":", "0", "3">>)
        /\ is(<<"P", "T", "4", "5", "S">>, <<"0", ":", "4", "5">>)

\* ------------------------------------------------------------------------
\* C9
\* ------------------------------------------------------------------------
\* t tenths is n/(10*unit) rendered to one decimal: no other number of
\* tenths is nearer to it
NearestTenths(n, unit, t) == 2 * (n - t * unit) <= unit /\ 2 * (t * unit - n) <= unit

\* n < 10000 written with a thousands separator
Separated(n) ==
  IF n < 1000 THEN Digits(n)
  ELSE Digits(n \div 1000) \o <<",">> \o
       <<DigitChars[((n \div 100) % 10) + 1], DigitChars[((n \div 10) % 10) + 1],
         DigitChars[(n % 10) + 1]>>

\* C9: format_count renders n >= 100,000,000 as n/100,000,000 to one decimal
\* followed by the eok unit, 10,000 <= n < 100,000,000 as n/10,000 to one
\* decimal followed by the man unit, and n < 10,000 with thousands
\* separators and no unit; 0 is "0", 9999 "9,999", 15000 "1.5" man and
\* 250000000 "2.5" eok.
C9_FormatCountByMagnitude ==
  Called("format_count") =>
    LET n == fmt_in.num
        rendered(unit, suffix) ==
          \E t \in (n \div unit)..(n \div unit + 1) :
            /\ NearestTenths(n, unit, t)
            /\ fmt_out = Str(Digits(t \div 10) \o <<".", DigitChars[(t % 10) + 1], suffix>>)
        is(k, output) == n = k => fmt_out = Str(output)
    IN  /\ n >= 100000000 => rendered(10000000, Eok)
        /\ (n >= 10000 /\ n < 100000000) => rendered(1000, Man)
        /\ n < 10000 => fmt_out = Str(Separated(n))
        /\ is(0, <<"0">>)
        /\ is(9999, <<"9", ",", "9", "9", "9">>)
        /\ is(15000, <<"1", ".", "5", Man>>)
        /\ is(250000000, <<"2", ".", "5", Eok>>)

\* The smallest count that takes the man unit has been formatted
C9_Witness ==
  /\ Called("format_count")
  /\ fmt_in.num = 10000
  /\ fmt_out = Str(<<"1", ".", "0", Man>>)

====
